---- MODULE Spec2Model ----
(***************************************************************************)
(* A model of the ai-shot selection overlay (crates/core/src/ui): the      *)
(* eframe update handler of SnippingTool, the drag gesture handling of     *)
(* selection.rs, the background worker that submit_request spawns, the     *)
(* mpsc channel between them, the exit of run(), and the coordinate        *)
(* mapping of image_processing.rs.                                         *)
(*                                                                         *)
(* Strings are sequences of characters, String::push_str is \o.  The       *)
(* payload of the k-th event a worker w sends holds the character <<w, k>>: *)
(* the program never inspects a payload, so distinct payloads lose nothing *)
(* and let a displayed text be traced back to the events it came from.     *)
(* Pointer positions are egui::Pos2 values with integral coordinates.      *)
(***************************************************************************)
EXTENDS Integers, Sequences, FiniteSets, TLC

VARIABLES
    selection_start,        \* SnippingTool.selection_start : Option<Pos2>
    current_pos,            \* SnippingTool.current_pos : Option<Pos2>
    is_selection_finalized, \* SnippingTool.is_selection_finalized
    chat_input,             \* SnippingTool.chat_input
    state,                  \* SnippingTool.state : UiState
    result,                 \* SnippingTool.result : SelectionResult (shared with run)
    chan,                   \* the mpsc channel tx -> rx, oldest event first
    workers,                \* the threads spawned by submit_request, by spawn order
    dragging,               \* egui: a drag of the background is in progress
    closed,                 \* ViewportCommand::Close has been issued
    ret,                    \* what run() returned (Running until it returns)
    cropped,                \* the latest direct call of process_selection: its
                            \* arguments and its outcome (None before any call)
    sent,                   \* history: every event each worker has sent, in order
    applied,                \* history: the events of each worker that
                            \* process_stream_events has received, in order
    settings,               \* SnippingTool.settings
    loaded,                 \* the last start of the overlay: the settings file,
                            \* the Config and what Settings::load returned
    requests,               \* history: the call of analyze_image_stream each
                            \* worker made, None if it made none
    daemon,                 \* run_daemon: ctrl_pressed and alt_pressed of the
                            \* listener, the keys held down, the latest key
                            \* event and whether it called capture_and_spawn
    capturer,               \* the Result of ScreenCapturer::new, None before
    captured,               \* the last capture call and what it returned
    live,                   \* history: a submit happened and no Back, drag-start since
    last                    \* the latest frame: the SelectionEvent it gave, the click,
                            \* the outcome of Settings::save if submit_request ran
                            \* and, for a drag-start, the UiState the Started arm
                            \* found and whether the frame drained events before it

vars == << selection_start, current_pos, is_selection_finalized, chat_input,
           state, result, chan, workers, dragging, closed, ret, cropped, sent,
           applied, settings, loaded, requests, daemon, capturer, captured, live,
           last >>

(***************************************************************************)
(* Bounds of the model.                                                    *)
(***************************************************************************)
MaxSubmits == 2             \* submit_request calls in one overlay session
MaxStreamEvents == 2        \* events the completion streams of one session yield

MIN_SELECTION_DISTANCE == 10

\* Option::None; Some(v) is v itself.
None == [none |-> TRUE]
Pos(x, y) == [x |-> x, y |-> y]

\* Pointer positions of the overlay session: where a drag may start and
\* where the pointer may move to (a drag released where it started needs
\* no move).  (0,0)-(9,12) is a selection of distance
\* 15, (0,0)-(0,12) one of distance 12 and of width 0.
StartPoints == { Pos(0, 0) }
Points == StartPoints \cup { Pos(0, 12), Pos(9, 12) }

\* The captured screenshot and the viewport (a HiDPI factor of 2).
ScreenshotSize == [width |-> 40, height |-> 40]
ViewportSize == [x |-> 20, y |-> 20]

WorkerIds == 1 .. MaxSubmits

(***************************************************************************)
(* UiState and StreamEvent (state.rs).                                     *)
(***************************************************************************)
Idle == [tag |-> "Idle"]
Loading == [tag |-> "Loading"]
Response(text, thoughts) == [tag |-> "Response", text |-> text, thoughts |-> thoughts]
ErrorState(err) == [tag |-> "Error", err |-> err]

Chunk(s) == [kind |-> "Chunk", payload |-> s]
Thought(s) == [kind |-> "Thought", payload |-> s]
ErrorEvent(s) == [kind |-> "Error", payload |-> s]
Done == [kind |-> "Done", payload |-> << >>]

\* SelectionResult::default()
DefaultSelectionResult ==
    [selected_area |-> None, screen_size |-> None, user_prompt |-> None]

(***************************************************************************)
(* selection.rs                                                            *)
(***************************************************************************)
\* Pos2::distance squared; for integral coordinates
\* sqrt(d2) > 10.0 in f32 exactly when d2 > 100.
Dist2(a, b) == (a.x - b.x) * (a.x - b.x) + (a.y - b.y) * (a.y - b.y)

\* A variant of the validity test that accepts the threshold itself.
is_valid_selection_AtLeast(start, end) ==
    Dist2(start, end) >= MIN_SELECTION_DISTANCE * MIN_SELECTION_DISTANCE

\* start.distance(end) > MIN_SELECTION_DISTANCE
is_valid_selection(start, end) ==
    Dist2(start, end) > MIN_SELECTION_DISTANCE * MIN_SELECTION_DISTANCE

\* A variant in which a drag-move moves both ends of the selection.
process_drag_event_MoveBoth(response, start, current, is_finalized) ==
    IF response.kind = "start"
    THEN [event |-> "Started", start |-> response.pos, current |-> response.pos]
    ELSE IF response.kind = "move"
    THEN [event |-> "Dragging", start |-> response.pos, current |-> response.pos]
    ELSE IF response.kind = "stop" /\ ~is_finalized
              /\ start # None /\ current # None
    THEN IF is_valid_selection(start, current)
         THEN [event |-> "Completed", start |-> start, current |-> current]
         ELSE [event |-> "Cancelled", start |-> None, current |-> None]
    ELSE [event |-> "None", start |-> start, current |-> current]

\* A variant of process_drag_event whose stop completes any drag.
process_drag_event_Unchecked(response, start, current, is_finalized) ==
    IF response.kind = "start"
    THEN [event |-> "Started", start |-> response.pos, current |-> response.pos]
    ELSE IF response.kind = "move"
    THEN [event |-> "Dragging", start |-> start, current |-> response.pos]
    ELSE IF response.kind = "stop" /\ ~is_finalized
              /\ start # None /\ current # None
    THEN [event |-> "Completed", start |-> start, current |-> current]
    ELSE [event |-> "None", start |-> start, current |-> current]

\* response: [kind: "none" | "start" | "move" | "stop", pos]; gives the
\* SelectionEvent and the new values of *start and *current.
process_drag_event(response, start, current, is_finalized) ==
    IF response.kind = "start"
    THEN [event |-> "Started", start |-> response.pos, current |-> response.pos]
    ELSE IF response.kind = "move"
    THEN [event |-> "Dragging", start |-> start, current |-> response.pos]
    ELSE IF response.kind = "stop" /\ ~is_finalized
              /\ start # None /\ current # None
    THEN IF is_valid_selection(start, current)
         THEN [event |-> "Completed", start |-> start, current |-> current]
         ELSE [event |-> "Cancelled", start |-> None, current |-> None]
    ELSE [event |-> "None", start |-> start, current |-> current]

\* egui::Rect::from_two_pos
RectFromTwoPos(a, b) ==
    [min |-> Pos(IF a.x < b.x THEN a.x ELSE b.x, IF a.y < b.y THEN a.y ELSE b.y),
     max |-> Pos(IF a.x < b.x THEN b.x ELSE a.x, IF a.y < b.y THEN b.y ELSE a.y)]

(***************************************************************************)
(* snipping_tool.rs: process_stream_events                                 *)
(***************************************************************************)
\* A variant of the Chunk arm that drops a chunk outside Response.
ChunkArm_ResponseOnly(st, text) ==
    IF st.tag = "Response"
    THEN [st EXCEPT !.text = @ \o text]
    ELSE st

\* The StreamEvent::Chunk arm.
ChunkArm(st, text) ==
    IF st.tag = "Response"
    THEN [st EXCEPT !.text = @ \o text]
    ELSE Response(text, << >>)

\* A variant of the Thought arm that pushes onto the text.
ThoughtArm_IntoText(st, thought) ==
    IF st.tag = "Response"
    THEN [st EXCEPT !.text = @ \o thought]
    ELSE Response(<< >>, thought)

\* The StreamEvent::Thought arm.
ThoughtArm(st, thought) ==
    IF st.tag = "Response"
    THEN [st EXCEPT !.thoughts = @ \o thought]
    ELSE Response(<< >>, thought)

\* A variant of the Done arm that returns the display to Idle.
DoneArm_ToIdle(st) == Idle

\* The StreamEvent::Done arm: a comment, no statement.
DoneArm(st) == st

\* One iteration of the while-let loop: the match on the event.
ApplyEvent(st, ev) ==
    CASE ev.kind = "Chunk" -> ChunkArm(st, ev.payload)
      [] ev.kind = "Thought" -> ThoughtArm(st, ev.payload)
      [] ev.kind = "Error" -> ErrorState(ev.payload)
      [] ev.kind = "Done" -> DoneArm(st)

\* A blocking receive: it returns once an event is there (the overlay keeps
\* a Sender of its own, so the channel never disconnects).
RecvReturns(queue) == queue # << >>

\* rx.try_recv() returns at once, with Err(Empty) on an empty channel.
TryRecvReturns(queue) == TRUE

\* The loop: try_recv until the channel is empty.
RECURSIVE ProcessStreamEvents(_, _)
ProcessStreamEvents(st, queue) ==
    IF queue = << >> THEN st
    ELSE ProcessStreamEvents(ApplyEvent(st, Head(queue).ev), Tail(queue))

\* The events of worker w among those the loop receives, in the order it
\* receives them.
RECURSIVE Taken(_, _)
Taken(queue, w) ==
    IF queue = << >> THEN << >>
    ELSE (IF Head(queue).src = w THEN << Head(queue).ev >> ELSE << >>)
         \o Taken(Tail(queue), w)

(***************************************************************************)
(* image_processing.rs: ImageProcessor::process_selection, up to the crop. *)
(* A scale factor is the exact quotient image / ui; the model's sizes keep  *)
(* it a dyadic number and its selections have corners whose differences    *)
(* and products f32 holds exactly.                                         *)
(*                                                                         *)
(* A u32, and a non-negative f32 on its way to one, is kept as two 16-bit  *)
(* halves [hi, lo] (hi * 2^16 + lo), so that values up to and beyond        *)
(* u32::MAX are exact.                                                     *)
(***************************************************************************)
Half == 2 ^ 16

Wide(n) == [hi |-> n \div Half, lo |-> n % Half]

WideMul(a, m) ==
    LET lo == a.lo * m
    IN  [hi |-> a.hi * m + lo \div Half, lo |-> lo % Half]

\* The integer part of a / d, d > 0.
WideDiv(a, d) ==
    [hi |-> a.hi \div d, lo |-> ((a.hi % d) * Half + a.lo) \div d]

WideAdd(a, b) ==
    [hi |-> a.hi + b.hi + (a.lo + b.lo) \div Half, lo |-> (a.lo + b.lo) % Half]

WideLess(a, b) == a.hi < b.hi \/ (a.hi = b.hi /\ a.lo < b.lo)

\* a - b for b <= a
WideSub(a, b) ==
    IF a.lo >= b.lo
    THEN [hi |-> a.hi - b.hi, lo |-> a.lo - b.lo]
    ELSE [hi |-> a.hi - b.hi - 1, lo |-> a.lo + Half - b.lo]

U32_MAX == [hi |-> Half - 1, lo |-> Half - 1]

\* Rust's saturating float-to-integer cast `as u32` of a non-negative value
\* (its integer part is given): a value above u32::MAX gives u32::MAX.
AsU32(v) == IF v.hi >= Half THEN U32_MAX ELSE v

saturating_sub(a, b) == IF WideLess(b, a) THEN WideSub(a, b) ELSE Wide(0)

\* (selection.min.x * scale_x).max(0.0) as u32, and likewise for y
ScaledOrigin(coord, image_dim, ui_dim) ==
    AsU32(WideDiv(WideMul(Wide(IF coord < 0 THEN 0 ELSE coord), image_dim), ui_dim))

\* (selection.width() * scale_x) as u32, and likewise for the height; the
\* cast of a negative value gives 0.
ScaledExtent(extent, image_dim, ui_dim) ==
    IF extent < 0 THEN Wide(0)
    ELSE AsU32(WideDiv(WideMul(Wide(extent), image_dim), ui_dim))

\* A variant of the clamp that always cuts the extent to the image's edge.
ClampExtent_Always(origin, extent, image_dim, overflow_checks) ==
    [panic |-> FALSE, extent |-> saturating_sub(Wide(image_dim), origin)]

\* if x + width > original.width() { width = original.width().saturating_sub(x) }
\* The sum is a u32 addition: when it overflows, a build with overflow
\* checks (the dev profile) panics and a build without (the release
\* profile) goes on with the sum modulo 2^32.
ClampExtent(origin, extent, image_dim, overflow_checks) ==
    LET sum == WideAdd(origin, extent)
        wrapped == [hi |-> sum.hi % Half, lo |-> sum.lo]
    IN  IF sum.hi >= Half /\ overflow_checks
        THEN [panic |-> TRUE, extent |-> extent]
        ELSE [panic |-> FALSE,
              extent |-> IF WideLess(Wide(image_dim), wrapped)
                         THEN saturating_sub(Wide(image_dim), origin)
                         ELSE extent]

\* The rectangle handed to crop_imm, or EmptySelection, or the panic of an
\* overflowing addition.
process_selection(original, selection, ui_size, overflow_checks) ==
    LET x == ScaledOrigin(selection.min.x, original.width, ui_size.x)
        y == ScaledOrigin(selection.min.y, original.height, ui_size.y)
        width == ClampExtent(x,
                     ScaledExtent(selection.max.x - selection.min.x,
                                  original.width, ui_size.x),
                     original.width, overflow_checks)
        height == ClampExtent(y,
                     ScaledExtent(selection.max.y - selection.min.y,
                                  original.height, ui_size.y),
                     original.height, overflow_checks)
    IN  IF width.panic \/ height.panic
        THEN [ok |-> FALSE, err |-> "panic"]
        ELSE IF width.extent = Wide(0) \/ height.extent = Wide(0)
        THEN [ok |-> FALSE, err |-> "EmptySelection"]
        ELSE [ok |-> TRUE, x |-> x, y |-> y,
              width |-> width.extent, height |-> height.extent]

(***************************************************************************)
(* settings.rs: Settings, and the start of the overlay that loads them.    *)
(* A settings file is missing, or has no path, or holds text that is no    *)
(* JSON, or a JSON object: a function from some field names to values.     *)
(***************************************************************************)
Models == { "gemini-2.5-pro", "gemini-flash-latest" }

SettingsOf(model, system_prompt, thinking_enabled, google_search, api_key) ==
    [model |-> model, system_prompt |-> system_prompt,
     thinking_enabled |-> thinking_enabled, google_search |-> google_search,
     api_key |-> api_key]

\* A variant of the defaults that takes the model of Settings::default().
with_defaults_Fixed(model) ==
    SettingsOf("gemini-flash-latest", "", FALSE, FALSE, "")

\* Settings::with_defaults
with_defaults(model) == SettingsOf(model, "", FALSE, FALSE, "")

\* The fields serde requires, and with them the one with #[serde(default)].
RequiredFields == { "model", "system_prompt", "thinking_enabled", "google_search" }
AllFields == RequiredFields \cup { "api_key" }

\* The values a field has in the files of the model, as the file spells
\* them; "1" stands for a value that is no boolean.
FieldValues(f) ==
    CASE f = "model" -> { "gemini-2.5-pro" }
      [] f = "system_prompt" -> { "Be brief." }
      [] f = "thinking_enabled" -> { "true", "false", "1" }
      [] f = "google_search" -> { "true" }
      [] f = "api_key" -> { "", "file-key" }

\* serde's bool: the literals true and false.
IsBool(v) == v \in { "true", "false" }
ParseBool(v) == v = "true"

\* The JSON objects a settings file may hold: every choice of fields.
JsonObjects ==
    UNION { { o \in [D -> UNION { FieldValues(f) : f \in D }] :
                \A f \in D : o[f] \in FieldValues(f) } : D \in SUBSET AllFields }

NoFile == [kind |-> "missing"]

SettingsFiles ==
    { NoFile, [kind |-> "no path"], [kind |-> "not json"] }
    \cup { [kind |-> "json", object |-> o] : o \in JsonObjects }

\* config_path().and_then(read_to_string): the content, if there is one.
ReadFile(file) ==
    IF file.kind \in {"missing", "no path"} THEN None ELSE [some |-> file]

\* serde_json::from_str::<Settings>: an object with every required field,
\* each of its type; api_key defaults to the empty string.
FromStr(content) ==
    IF /\ content.kind = "json"
       /\ RequiredFields \subseteq DOMAIN content.object
       /\ IsBool(content.object["thinking_enabled"])
       /\ IsBool(content.object["google_search"])
    THEN LET o == content.object
         IN  [some |-> SettingsOf(o["model"], o["system_prompt"],
                                  ParseBool(o["thinking_enabled"]),
                                  ParseBool(o["google_search"]),
                                  IF "api_key" \in DOMAIN o THEN o["api_key"]
                                  ELSE "")]
    ELSE None

\* Settings::load
load(file, default_model) ==
    LET content == ReadFile(file)
        parsed == IF content = None THEN None ELSE FromStr(content.some)
    IN  IF parsed = None THEN with_defaults(default_model) ELSE parsed.some

\* Config: what the environment gave at the start of the program.
Configs ==
    { [gemini_api_key |-> k, model_name |-> m] : k \in { "", "env-key" }, m \in Models }

EnvConfig == [gemini_api_key |-> "env-key", model_name |-> "gemini-flash-latest"]

\* SnippingTool::new: the settings the overlay starts with.
InitialSettings(file, config) ==
    LET initial_settings == load(file, config.model_name)
    IN  IF initial_settings.api_key = ""
        THEN [initial_settings EXCEPT !.api_key = config.gemini_api_key]
        ELSE initial_settings

\* What the settings panel is used for in the model: another value of
\* every field.
PanelSettings ==
    { SettingsOf("gemini-2.5-pro", "Be brief.", TRUE, TRUE, "panel-key") }

(***************************************************************************)
(* snipping_tool.rs: the worker thread of submit_request.                  *)
(***************************************************************************)
NotSpawned ==
    [pc |-> "none", n |-> 0, selection |-> None, ui_size |-> None, prompt |-> << >>,
     settings |-> None]

\* The number of submit_request calls so far; the latest worker has this id.
gen == Cardinality({w \in WorkerIds : workers[w].pc # "none"})

\* The stream events received so far, over all workers.
RECURSIVE SumN(_)
SumN(S) == IF S = {} THEN 0
           ELSE LET w == CHOOSE v \in S : TRUE IN workers[w].n + SumN(S \ {w})
Streamed == SumN(WorkerIds)

\* The character that marks the next event worker w sends.
Token(w) == << w, Len(sent[w]) + 1 >>

\* A variant of the send that puts the event at the front of the channel.
Send_Front(w, ev) ==
    /\ chan' = << [ev |-> ev, src |-> w] >> \o chan
    /\ sent' = [sent EXCEPT ![w] = Append(@, ev)]

\* tx.send(ev) by worker w.
Send(w, ev) ==
    /\ chan' = Append(chan, [ev |-> ev, src |-> w])
    /\ sent' = [sent EXCEPT ![w] = Append(@, ev)]

\* A variant of the message that is the error's text alone.
ErrorMessage_Bare(prefix, detail) == detail

\* format!("<prefix>{}", e): the prefix, then the error's own text.
ErrorMessage(prefix, detail) == << prefix >> \o detail

WorkerFrame == UNCHANGED << selection_start, current_pos, is_selection_finalized,
                            chat_input, state, result, dragging, closed, ret,
                            cropped, applied, settings, loaded, daemon, capturer,
                            captured,
                            live, last >>

\* The worker's state once the prelude is over: the prompt and the encoded
\* image were moved into analyze_image_stream (or dropped with the closure).
Moved(pc) ==
    [pc |-> pc, n |-> 0, selection |-> None, ui_size |-> None, prompt |-> << >>,
     settings |-> None]

\* A variant of the failure that returns without sending.
WorkerFail_Silent(w, prefix, detail) ==
    /\ workers' = [workers EXCEPT ![w] = Moved("end")]
    /\ UNCHANGED << chan, sent >>

\* A variant of the worker that reads the overlay's settings when it runs.
WorkerSettings_Live(w) == settings

\* The settings the closure holds: the clone submit_request moved into it.
WorkerSettings(w) == workers[w].settings

\* system_prompt.trim().is_empty()
IsBlank(text) == text \in { "", " " }

\* What the worker hands to the completion service: the client is built
\* for the key and the model, analyze_image_stream gets the encoded crop,
\* the prompt, the system prompt (left out when blank) and the two flags.
Request(crop, prompt, snapshot) ==
    [api_key |-> snapshot.api_key,
     model |-> snapshot.model,
     image |-> [x |-> crop.x, y |-> crop.y, width |-> crop.width,
                height |-> crop.height],
     prompt |-> prompt,
     system_prompt |-> IF IsBlank(snapshot.system_prompt) THEN None
                       ELSE [some |-> snapshot.system_prompt],
     thinking_enabled |-> snapshot.thinking_enabled,
     google_search |-> snapshot.google_search]

\* client.analyze_image_stream(..) is called by worker w.
Call(w, crop) ==
    requests' = [requests EXCEPT ![w] =
                    Request(crop, workers[w].prompt, WorkerSettings(w))]

\* A failure of the prelude: the Error is sent and the closure returns.
WorkerFail(w, prefix, detail) ==
    /\ Send(w, ErrorEvent(ErrorMessage(prefix, detail)))
    /\ workers' = [workers EXCEPT ![w] = Moved("end")]

\* The worker up to the start of the stream loop: the tokio runtime is
\* built, the selection is cropped and encoded, the configuration and the
\* client are built and the stream is opened.  These steps read and write
\* only what the thread owns, so they are taken in one step, which ends in
\* the first tx.send or in the stream loop.  Config::builder()...build()
\* always returns Ok (config.rs), so its Err arm sends nothing.  A panic
\* of process_selection would end the thread with nothing sent; it takes a
\* selection far outside the viewport, which the overlay never passes.
WorkerStart(w) ==
    /\ ~closed
    /\ workers[w].pc = "spawned"
    /\ \E overflow_checks \in BOOLEAN :
       LET r == process_selection(ScreenshotSize, workers[w].selection,
                                  workers[w].ui_size, overflow_checks)
       IN  \/ /\ WorkerFail(w, "Failed to create async runtime: ", << Token(w) >>)
              /\ UNCHANGED requests
           \/ /\ ~r.ok
              /\ IF r.err = "panic"
                 THEN \* the thread unwinds: nothing is sent
                      /\ workers' = [workers EXCEPT ![w] = Moved("end")]
                      /\ UNCHANGED << chan, sent >>
                 ELSE WorkerFail(w, "Image processing failed: ",
                                 << "Selection area is empty or invalid" >>)
              /\ UNCHANGED requests
           \/ /\ r.ok
              /\ \/ /\ WorkerFail(w, "Image processing failed: ",
                                  << "Image processing failed: ", Token(w) >>)
                    /\ UNCHANGED requests
                 \/ /\ WorkerFail(w, "Client initialization failed: ", << Token(w) >>)
                    /\ UNCHANGED requests
                 \/ /\ WorkerFail(w, "Gemini API error: ", << Token(w) >>)
                    /\ Call(w, r)
                 \/ /\ workers' = [workers EXCEPT ![w] = Moved("stream")]
                    /\ Call(w, r)
                    /\ UNCHANGED << chan, sent >>
    /\ WorkerFrame

\* One event of the stream loop.  An item Ok(events) is sent event by event,
\* so the model takes the stream's events one at a time; an item Err(e) is
\* sent as an Error and the loop goes on to the next item.
WorkerStreamItem(w) ==
    /\ ~closed
    /\ workers[w].pc = "stream"
    /\ Streamed < MaxStreamEvents
    /\ \/ Send(w, Chunk(<< Token(w) >>))
       \/ Send(w, Thought(<< Token(w) >>))
       \/ Send(w, ErrorEvent(ErrorMessage("Stream error: ", << Token(w) >>)))
    /\ workers' = [workers EXCEPT ![w].n = @ + 1]
    /\ UNCHANGED requests
    /\ WorkerFrame

\* A variant of the end of the stream that sends nothing.
WorkerStreamEnd_NoDone(w) ==
    /\ ~closed
    /\ workers[w].pc = "stream"
    /\ workers' = [workers EXCEPT ![w].pc = "end"]
    /\ UNCHANGED << chan, sent, requests >>
    /\ WorkerFrame

\* stream.next() gives None: the loop ends and Done is sent.
WorkerStreamEnd(w) ==
    /\ ~closed
    /\ workers[w].pc = "stream"
    /\ Send(w, Done)
    /\ workers' = [workers EXCEPT ![w].pc = "end"]
    /\ UNCHANGED requests
    /\ WorkerFrame

(***************************************************************************)
(* snipping_tool.rs: submit_request, the render functions, update, run.    *)
(***************************************************************************)
DEFAULT_PROMPT == << "Explain this image in detail." >>

\* What the user may have typed into the prompt field.
ChatInputs == { << >>, << "q" >> }

\* chat_input.trim().is_empty()
TrimIsEmpty(s) == \A i \in 1 .. Len(s) : s[i] = " "

\* render_idle_ui: the prompt handed to submit_request.
PromptOf(input) == IF TrimIsEmpty(input) THEN DEFAULT_PROMPT ELSE input

\* A variant of submit_request that shows the spinner first.
SubmitState_Loading == Loading

\* submit_request: the state it sets (a failure of Settings::save is
\* written to stderr and nothing else).
SubmitState == Response(<< >>, << >>)

\* A variant of the spawn that starts no thread.
SpawnedWorker_None(selection, ui_size, prompt, snapshot) == NotSpawned

\* submit_request: the thread it spawns, holding the moved-in arguments.
SpawnedWorker(selection, ui_size, prompt, snapshot) ==
    [pc |-> "spawned", n |-> 0, selection |-> selection, ui_size |-> ui_size,
     prompt |-> prompt, settings |-> snapshot]

\* A variant of the Started arm that resets only an Error.
StartedState_ErrorOnly(st) == IF st.tag = "Error" THEN Idle ELSE st

\* update, SelectionEvent::Started arm: the reset of the presentation state.
StartedState(st) == IF st.tag \in {"Response", "Error"} THEN Idle ELSE st

\* The Back buttons of render_response_ui and render_error_ui.
BackState == Idle

\* run() has not returned yet.
Running == [running |-> TRUE]

\* run(): the match on the shared SelectionResult after run_native returned.
RunResult(res) ==
    IF res.selected_area # None /\ res.screen_size # None
    THEN [some |-> << res.selected_area, res.screen_size, res.user_prompt >>]
    ELSE None

Responses ==
    { [kind |-> "none", pos |-> None] } \cup
    { [kind |-> "start", pos |-> p] : p \in StartPoints } \cup
    { [kind |-> "move", pos |-> p] : p \in Points \ StartPoints } \cup
    { [kind |-> "stop", pos |-> None] }

Clicks == { "none", "submit", "back", "close", "type", "settings" }

\* A variant of the Started arm that keeps the prompt field.
StartedChat_Keep(input) == input

\* The Started arm: self.chat_input.clear()
StartedChat(input) == << >>

\* A variant of the frame that handles the pointer before it drains.
TickState_InputFirst(st, queue, event) ==
    ProcessStreamEvents(IF event = "Started" THEN StartedState(st) ELSE st, queue)

\* The state after the head of the frame: process_stream_events first, the
\* match on the SelectionEvent after it.
TickState(st, queue, event) ==
    LET drained == ProcessStreamEvents(st, queue)
    IN  IF event = "Started" THEN StartedState(drained) ELSE drained

\* A variant of the frame that closes on the Close button only.
CloseIssued_ButtonOnly(esc, click) == click = "close"

\* The frame sends ViewportCommand::Close: Escape was pressed, or the Close
\* button of the response view was clicked.
CloseIssued(esc, click) == esc \/ click = "close"

\* A variant of the pointer's behaviour that reports any event at any time.
WellFormed_Any(response, is_dragging) == TRUE

\* egui reports drag_started, then dragged, then drag_stopped: a drag is
\* started only when none is under way, moved and stopped only when one is.
WellFormed(response, is_dragging) ==
    /\ response.kind = "start" => ~is_dragging
    /\ response.kind \in {"move", "stop"} => is_dragging

\* One frame: eframe calls update with the frame's pointer response on the
\* background, the Escape key, and what the user does in the interaction
\* window (click; typed is the new content of the prompt field), and with
\* the outcome of Settings::save should submit_request call it.
\* A variant of the window's match that draws the prompt row in every state.
RendersIdleUi_AnyState(window, st) == window

\* The interaction window is drawn and its match on the state takes the
\* UiState::Idle arm, render_idle_ui: the prompt field, the submit button
\* and the settings button exist in this frame.
RendersIdleUi(window, st) == window /\ st.tag = "Idle"

Update(response, esc, click, typed, edited, save_ok) ==
    /\ ~closed
    /\ WellFormed(response, dragging)
    \* the call of try_recv that ends the loop finds the channel empty
    /\ TryRecvReturns(<< >>)
    /\ LET \* self.process_stream_events(ctx)
           st1 == ProcessStreamEvents(state, chan)
           handles == st1.tag # "Loading"
           d == IF handles
                THEN process_drag_event(response, selection_start, current_pos,
                                        is_selection_finalized)
                ELSE [event |-> "None", start |-> selection_start,
                      current |-> current_pos]
           fin == IF d.event = "Started" THEN FALSE
                  ELSE IF d.event = "Completed" THEN TRUE
                  ELSE is_selection_finalized
           chat1 == IF d.event = "Started" THEN StartedChat(chat_input)
                    ELSE chat_input
           \* the prompt field after the frame: typed into, or as it was
           chat2 == IF click = "type" THEN typed ELSE chat1
           st2 == TickState(state, chan, d.event)
           \* the interaction window is drawn for a finalized selection
           window == fin /\ d.start # None /\ d.current # None
           submits == click = "submit"
       IN  /\ click = "submit" => RendersIdleUi(window, st2) /\ gen < MaxSubmits
           /\ click = "type" => RendersIdleUi(window, st2) /\ typed # chat1
           /\ click = "back" => window /\ st2.tag \in {"Response", "Error"}
           /\ click = "close" => window /\ st2.tag = "Response"
           /\ click = "settings" => RendersIdleUi(window, st2) /\ edited # settings
           /\ click # "settings" => edited = settings
           /\ selection_start' = d.start
           /\ current_pos' = d.current
           /\ is_selection_finalized' = fin
           /\ chat_input' = chat2
           /\ state' = IF submits THEN SubmitState
                       ELSE IF click = "back" THEN BackState
                       ELSE st2
           /\ workers' = IF submits
                         THEN [workers EXCEPT ![gen + 1] =
                                 SpawnedWorker(RectFromTwoPos(d.start, d.current),
                                               ViewportSize, PromptOf(chat2),
                                               settings)]
                         ELSE workers
           /\ live' = IF submits THEN TRUE
                      ELSE IF click = "back" \/ d.event = "Started" THEN FALSE
                      ELSE live
           /\ closed' = CloseIssued(esc, click)
           /\ last' = [event |-> d.event, click |-> click,
                       save |-> IF ~submits THEN "none"
                                ELSE IF save_ok THEN "ok" ELSE "failed",
                       was |-> IF d.event = "Started" THEN st1.tag ELSE "Idle",
                       drained |-> d.event = "Started" /\ chan # << >>]
    /\ chan' = << >>
    /\ dragging' = IF response.kind = "start" THEN TRUE
                   ELSE IF response.kind = "stop" THEN FALSE
                   ELSE dragging
    /\ applied' = [w \in WorkerIds |-> applied[w] \o Taken(chan, w)]
    /\ settings' = edited
    /\ UNCHANGED << result, ret, cropped, sent, loaded, requests, daemon,
                    capturer, captured >>

\* A frame with no input: only the channel is drained.
Frame == Update([kind |-> "none", pos |-> None], FALSE, "none", chat_input, settings, TRUE)

\* A frame with a pointer event on the background.
Pointer ==
    \E r \in Responses : r.kind # "none" /\ Update(r, FALSE, "none", chat_input, settings, TRUE)

\* A frame in which the user clicks a button of the interaction window.
Interact ==
    \E c \in Clicks \ {"none", "type", "settings"} :
        \E save_ok \in (IF c = "submit" THEN BOOLEAN ELSE {TRUE}) :
            Update([kind |-> "none", pos |-> None], FALSE, c, chat_input, settings, save_ok)

\* A frame in which the user edits the prompt field.  Next leaves it out:
\* the prompt has no part in the stream handling, and under Spec the
\* field keeps the empty content new() gives it.
Type ==
    \E t \in ChatInputs :
        Update([kind |-> "none", pos |-> None], FALSE, "type", t, settings, TRUE)

\* A frame in which Escape is pressed.
Escape == Update([kind |-> "none", pos |-> None], TRUE, "none", chat_input, settings, TRUE)

\* run_daemon before the first event.
DaemonStart ==
    [ctrl_pressed |-> FALSE, alt_pressed |-> FALSE, held |-> {},
     event |-> [type |-> "none", key |-> "none"], fired |-> FALSE]

\* run(): run_native has returned; the shared result is read.
RunReturn ==
    /\ closed
    /\ ret = Running
    /\ ret' = RunResult(result)
    /\ UNCHANGED << selection_start, current_pos, is_selection_finalized,
                    chat_input, state, result, chan, workers, dragging, closed,
                    cropped, sent, applied, settings, loaded, requests, daemon,
                    capturer,
                    captured, live, last >>

Init ==
    /\ selection_start = None
    /\ current_pos = None
    /\ is_selection_finalized = FALSE
    /\ chat_input = << >>
    /\ state = Idle
    /\ result = DefaultSelectionResult
    /\ chan = << >>
    /\ workers = [w \in WorkerIds |-> NotSpawned]
    /\ dragging = FALSE
    /\ closed = FALSE
    /\ ret = Running
    /\ cropped = None
    /\ sent = [w \in WorkerIds |-> << >>]
    /\ applied = [w \in WorkerIds |-> << >>]
    /\ settings = InitialSettings(NoFile, EnvConfig)
    /\ loaded = None
    /\ requests = [w \in WorkerIds |-> None]
    /\ daemon = DaemonStart
    /\ capturer = None
    /\ captured = None
    /\ live = FALSE
    /\ last = [event |-> "None", click |-> "none", save |-> "none",
               was |-> "Idle", drained |-> FALSE]

Worker ==
    \E w \in WorkerIds :
        \/ WorkerStart(w)
        \/ WorkerStreamItem(w)
        \/ WorkerStreamEnd(w)

Next ==
    \/ Frame
    \/ Pointer
    \/ Interact
    \/ Escape
    \/ RunReturn
    \/ Worker

Spec == Init /\ [][Next]_vars

(***************************************************************************)
(* The drag gesture alone, over a grid of pointer positions whose pairwise *)
(* distances lie below, at and above the threshold.                        *)
(***************************************************************************)
GesturePoints == { Pos(x, y) : x \in {0, 3, 6, 9, 10, 11}, y \in {0, 1, 4, 8, 12} }

GestureStart ==
    \E p \in GesturePoints :
        Update([kind |-> "start", pos |-> p], FALSE, "none", chat_input, settings, TRUE)

GestureMove ==
    \E p \in GesturePoints :
        Update([kind |-> "move", pos |-> p], FALSE, "none", chat_input, settings, TRUE)

GestureStop == Update([kind |-> "stop", pos |-> None], FALSE, "none", chat_input, settings, TRUE)

NextGesture == GestureStart \/ GestureMove \/ GestureStop

SpecGesture == Init /\ [][NextGesture]_vars

(***************************************************************************)
(* ImageProcessor::process_selection called directly (it is public), on    *)
(* screenshots and viewports whose quotients are dyadic and on rectangles  *)
(* with corners inside, on and outside the viewport.                       *)
(***************************************************************************)
Size(w, h) == [width |-> w, height |-> h]
Vec2(x, y) == [x |-> x, y |-> y]

MapCases ==
    { [original |-> Size(3840, 2160), ui_size |-> Vec2(1920, 1080)],
      [original |-> Size(3840, 2160), ui_size |-> Vec2(960, 540)],
      [original |-> Size(40, 20), ui_size |-> Vec2(20, 20)],
      [original |-> Size(30, 20), ui_size |-> Vec2(20, 20)],
      [original |-> Size(20, 20), ui_size |-> Vec2(40, 40)] }

MapCorners ==
    { Pos(0, 0), Pos(1, 3), Pos(3, 1), Pos(7, 7), Pos(20, 20), Pos(25, 10),
      Pos(100, 100), Pos(200, 150), Pos(1900, 1000), Pos(2000, 1100),
      Pos(-20, -20), Pos(-10, -5) }

\* Corners far to the right of and below every viewport; f32 holds them,
\* their differences and their products with the scale factors exactly.
FarCorners ==
    { Pos(2 ^ 30, 2 ^ 30), Pos(2 ^ 30 + 256, 2 ^ 30), Pos(2 ^ 30 + 256, 2 ^ 30 + 256) }

\* The selections: egui::Rect values with min <= max on both axes.
MapSelections ==
    { RectFromTwoPos(a, b) : a \in MapCorners, b \in MapCorners } \cup
    { RectFromTwoPos(a, b) : a \in FarCorners, b \in FarCorners }

MapCall ==
    /\ \E c \in MapCases, selection \in MapSelections,
          overflow_checks \in BOOLEAN :
          cropped' = [original |-> c.original, ui_size |-> c.ui_size,
                      selection |-> selection,
                      overflow_checks |-> overflow_checks,
                      out |-> process_selection(c.original, selection,
                                                c.ui_size, overflow_checks)]
    /\ UNCHANGED << selection_start, current_pos, is_selection_finalized,
                    chat_input, state, result, chan, workers, dragging, closed,
                    ret, sent, applied, settings, loaded, requests, daemon,
                    capturer,
                    captured, live, last >>

SpecMap == Init /\ [][MapCall]_vars

(***************************************************************************)
(* capture.rs: ScreenCapturer.  A screen is known by the id of its         *)
(* display; Screen::all() fails or gives the displays in some order.       *)
(***************************************************************************)
MaxScreens == 3

ScreenIds == 1 .. MaxScreens

\* What Screen::all() can give: an error, or a list of distinct displays.
ScreenLists ==
    UNION { { q \in [1 .. n -> ScreenIds] :
                \A i, j \in 1 .. n : i # j => q[i] # q[j] } : n \in 0 .. MaxScreens }

ScreenAllOutcomes ==
    { [ok |-> FALSE] } \cup { [ok |-> TRUE, screens |-> q] : q \in ScreenLists }

\* AppError::capture(msg) and AppError::ScreenNotFound(index)
ScreenCapture(msg) == [ok |-> FALSE, err |-> "ScreenCapture", msg |-> msg]
ScreenNotFound(index) == [ok |-> FALSE, err |-> "ScreenNotFound", index |-> index]

\* ScreenCapturer::new, given what Screen::all() returned.
ScreenCapturer_new(all) ==
    IF ~all.ok THEN ScreenCapture("Failed to enumerate screens: ")
    ELSE IF all.screens = << >> THEN ScreenCapture("No screens detected")
    ELSE [ok |-> TRUE, screens |-> all.screens]

\* A variant of the lookup that counts the screens from one.
Get_FromOne(screens, index) ==
    IF 1 <= index /\ index <= Len(screens)
    THEN [some |-> screens[index]] ELSE None

\* self.screens.get(index), for a zero-based index.
Get(screens, index) ==
    IF index < Len(screens) THEN [some |-> screens[index + 1]] ELSE None

\* What screen.capture() and ImageBuffer::from_raw can do.
CaptureOutcomes == { "ok", "capture fails", "buffer fails" }

\* ScreenCapturer::capture_screen_by_index; an image is known by the screen
\* it shows.
capture_screen_by_index(screens, index, outcome) ==
    LET screen == Get(screens, index)
    IN  IF screen = None THEN ScreenNotFound(index)
        ELSE IF outcome = "capture fails"
        THEN ScreenCapture("Failed to capture screen: ")
        ELSE IF outcome = "buffer fails"
        THEN ScreenCapture("Failed to create image buffer")
        ELSE [ok |-> TRUE, image |-> screen.some]

\* ScreenCapturer::capture_screen
capture_screen(screens, outcome) == capture_screen_by_index(screens, 0, outcome)

CaptureFrame ==
    UNCHANGED << selection_start, current_pos, is_selection_finalized,
                 chat_input, state, result, chan, workers, dragging, closed,
                 ret, cropped, sent, applied, settings, loaded, requests, daemon,
                 live, last >>

NewCapturer ==
    /\ \E all \in ScreenAllOutcomes : capturer' = ScreenCapturer_new(all)
    /\ captured' = None
    /\ CaptureFrame

CaptureByIndex ==
    /\ capturer # None /\ capturer.ok
    /\ \E index \in 0 .. MaxScreens, outcome \in CaptureOutcomes :
          captured' = [call |-> "capture_screen_by_index", index |-> index,
                       out |-> capture_screen_by_index(capturer.screens, index,
                                                       outcome)]
    /\ UNCHANGED capturer
    /\ CaptureFrame

CaptureScreen ==
    /\ capturer # None /\ capturer.ok
    /\ \E outcome \in CaptureOutcomes :
          captured' = [call |-> "capture_screen", index |-> 0,
                       out |-> capture_screen(capturer.screens, outcome)]
    /\ UNCHANGED capturer
    /\ CaptureFrame

NextCapture == NewCapturer \/ CaptureByIndex \/ CaptureScreen

SpecCapture == Init /\ [][NextCapture]_vars

(***************************************************************************)
(* The start of the overlay on every settings file and every Config.       *)
(***************************************************************************)
NewOverlay ==
    /\ \E file \in SettingsFiles, config \in Configs :
          /\ loaded' = [file |-> file, config |-> config,
                        out |-> load(file, config.model_name)]
          /\ settings' = InitialSettings(file, config)
    /\ UNCHANGED << selection_start, current_pos, is_selection_finalized,
                    chat_input, state, result, chan, workers, dragging, closed,
                    ret, cropped, sent, applied, requests, daemon, capturer,
                    captured,
                    live, last >>

SpecSettings == Init /\ [][NewOverlay]_vars

(***************************************************************************)
(* The overlay with its prompt field and its settings panel in use, and    *)
(* one request: the worker is followed up to the opening of its stream.    *)
(***************************************************************************)
MaxPromptSubmits == 1

\* A frame in which the user changes the settings in the panel.
EditSettings ==
    \E e \in PanelSettings \cup { InitialSettings(NoFile, EnvConfig) } :
        Update([kind |-> "none", pos |-> None], FALSE, "settings", chat_input,
               e, TRUE)

PromptInteract == Interact /\ gen' <= MaxPromptSubmits

PromptWorker == \E w \in WorkerIds : WorkerStart(w)

NextPrompt ==
    \/ Pointer
    \/ Type
    \/ EditSettings
    \/ PromptInteract
    \/ PromptWorker

SpecPrompt == Init /\ [][NextPrompt]_vars

(***************************************************************************)
(* main.rs: run_daemon.  rdev delivers the key events of the whole         *)
(* keyboard to the listener; a key that is held down may be reported as    *)
(* pressed again (auto-repeat), a release is reported for a key that is    *)
(* down.                                                                   *)
(***************************************************************************)
ControlKeys == { "ControlLeft", "ControlRight" }
AltKeys == { "Alt", "AltGr" }
Keys == ControlKeys \cup AltKeys \cup { "KeyX", "KeyA" }

\* KeyRelease of a key of the group: the flag is set to false.
ReleaseFlag(flag, key, group) == IF key \in group THEN FALSE ELSE flag

\* KeyPress of a key of the group: the flag is set to true.
PressFlag(flag, key, group) == IF key \in group THEN TRUE ELSE flag

DaemonFrame ==
    UNCHANGED << selection_start, current_pos, is_selection_finalized,
                 chat_input, state, result, chan, workers, dragging, closed,
                 ret, cropped, sent, applied, settings, loaded, requests,
                 capturer, captured, live, last >>

\* The closure on EventType::KeyPress(key).
KeyPress ==
    /\ \E key \in Keys :
          daemon' = [ctrl_pressed |-> PressFlag(daemon.ctrl_pressed, key, ControlKeys),
                     alt_pressed |-> PressFlag(daemon.alt_pressed, key, AltKeys),
                     held |-> daemon.held \cup { key },
                     event |-> [type |-> "KeyPress", key |-> key],
                     fired |-> /\ key = "KeyX"
                               /\ daemon.ctrl_pressed /\ daemon.alt_pressed]
    /\ DaemonFrame

\* The closure on EventType::KeyRelease(key).
KeyRelease ==
    /\ \E key \in daemon.held :
          daemon' = [ctrl_pressed |-> ReleaseFlag(daemon.ctrl_pressed, key,
                                                  ControlKeys),
                     alt_pressed |-> ReleaseFlag(daemon.alt_pressed, key,
                                                 AltKeys),
                     held |-> daemon.held \ { key },
                     event |-> [type |-> "KeyRelease", key |-> key],
                     fired |-> FALSE]
    /\ DaemonFrame

NextDaemon == KeyPress \/ KeyRelease

SpecDaemon == Init /\ [][NextDaemon]_vars

(***************************************************************************)
(* Vocabulary of the properties.                                           *)
(***************************************************************************)
IsPrefix(s, t) == Len(s) <= Len(t) /\ SubSeq(t, 1, Len(s)) = s

\* The events of worker w that are still in the channel.
InChan(w) == Cardinality({i \in 1 .. Len(chan) : chan[i].src = w})

\* The events of worker w that process_stream_events has taken, in the order
\* the worker sent them.
Drained(w) == SubSeq(sent[w], 1, Len(sent[w]) - InChan(w))

\* The payloads of the events of one kind, concatenated in order.
RECURSIVE Concat(_, _)
Concat(events, kind) ==
    IF events = << >> THEN << >>
    ELSE (IF Head(events).kind = kind THEN Head(events).payload ELSE << >>)
         \o Concat(Tail(events), kind)

Kinds(events) == {events[i].kind : i \in 1 .. Len(events)}

(***************************************************************************)
(* C1 (generation isolation).  After a second submit_request, while no     *)
(* Back or drag-start has followed it, the text of UiState::Response is    *)
(* exactly the Chunk payloads the second worker has sent and the frame     *)
(* loop has drained, in the order sent: nothing the first worker sends is  *)
(* shown.  (The second worker is taken not to have failed, so that only    *)
(* the first worker's events can break the statement.)                     *)
(* Violated: a StreamEvent carries no generation and process_stream_events *)
(* applies every event it receives.                                        *)
(***************************************************************************)
C1_GenerationIsolation ==
    (gen = 2 /\ live /\ "Error" \notin Kinds(sent[2]))
        => state = Response(Concat(Drained(2), "Chunk"), Concat(Drained(2), "Thought"))

(***************************************************************************)
(* C2 (reset on new drag).  A frame that processes a drag-start ends with  *)
(* the presentation state Idle, whatever the state was at the start of the *)
(* frame and whatever events the frame drained before it.                  *)
(***************************************************************************)
C2_ResetOnNewDrag == last.event = "Started" => state = Idle

\* A drag-start was processed in Response or Error, in a frame that drained
\* pending events first, while a worker is still streaming.
C2_Witness ==
    /\ last.event = "Started"
    /\ last.was \in {"Response", "Error"}
    /\ last.drained
    /\ \E w \in WorkerIds : workers[w].pc = "stream"

(***************************************************************************)
(* C3 (documented state machine).  Every change of UiState is one of       *)
(* Idle -> Response by a submit, Response -> Response by appending,        *)
(* Response -> Error, Response -> Idle and Error -> Idle by Back or a new  *)
(* drag; no stream event moves the state out of Idle or out of Error.      *)
(* Violated: a Chunk, Thought or Error drained in Idle or Error changes    *)
(* the state.                                                              *)
(***************************************************************************)
C3_Allowed ==
    \/ /\ state.tag = "Idle" /\ state'.tag = "Response"
       /\ last'.click = "submit"
    \/ /\ state.tag = "Response" /\ state'.tag = "Response"
       /\ IsPrefix(state.text, state'.text)
       /\ IsPrefix(state.thoughts, state'.thoughts)
    \/ /\ state.tag = "Response" /\ state'.tag = "Error"
    \/ /\ state.tag \in {"Response", "Error"} /\ state'.tag = "Idle"
       /\ (last'.click = "back" \/ last'.event = "Started")

C3_StateMachine == [][state' # state => C3_Allowed]_vars

(***************************************************************************)
(* C4 (append-only display).  From one displayed Response to the next,     *)
(* with no Back, drag-start or submit in between, the text and the         *)
(* thoughts only grow: the earlier value is a prefix of the later one.     *)
(* Violated: an Error followed by a Chunk, or a Chunk after the Error of   *)
(* a superseded worker, replaces the text.                                 *)
(***************************************************************************)
C4_AppendOnly ==
    [][(state.tag = "Response" /\ state'.tag = "Response" /\ live /\ live'
          /\ last'.click # "submit")
        => /\ IsPrefix(state.text, state'.text)
           /\ IsPrefix(state.thoughts, state'.thoughts)]_vars

(***************************************************************************)
(* C5 (accumulation).  With one worker, from the empty Response that       *)
(* submit_request sets and with no Back or drag-start since, once the      *)
(* frames have drained a sequence of Chunk and Thought events the text is  *)
(* the Chunk payloads concatenated in arrival order and the thoughts are   *)
(* the Thought payloads concatenated in arrival order; and in a Response   *)
(* state a pending Chunk leaves the thoughts, a pending Thought the text.  *)
(***************************************************************************)
C5_Accumulation ==
    /\ (gen = 1 /\ live /\ Kinds(Drained(1)) \subseteq {"Chunk", "Thought"})
          => state = Response(Concat(Drained(1), "Chunk"),
                              Concat(Drained(1), "Thought"))
    /\ state.tag = "Response" =>
          \A i \in 1 .. Len(chan) :
              /\ chan[i].ev.kind = "Chunk" =>
                    /\ ApplyEvent(state, chan[i].ev).thoughts = state.thoughts
                    /\ ApplyEvent(state, chan[i].ev).text
                          = state.text \o chan[i].ev.payload
              /\ chan[i].ev.kind = "Thought" =>
                    /\ ApplyEvent(state, chan[i].ev).text = state.text
                    /\ ApplyEvent(state, chan[i].ev).thoughts
                          = state.thoughts \o chan[i].ev.payload

\* One worker's Chunk and Thought have both been drained into the Response.
C5_Witness ==
    /\ gen = 1 /\ live
    /\ Kinds(Drained(1)) = {"Chunk", "Thought"}
    /\ state.tag = "Response"
    /\ Len(state.text) = 1 /\ Len(state.thoughts) = 1

(***************************************************************************)
(* C6 (a worker failure is terminal).  A StreamEvent::Error is the last    *)
(* event its worker sends.                                                 *)
(* Violated: the stream loop has no break in its Err arm, so the worker    *)
(* goes on to the next item and sends Done when the stream ends.           *)
(***************************************************************************)
C6_FailureTerminal ==
    \A w \in WorkerIds :
        \A i \in 1 .. Len(sent[w]) :
            sent[w][i].kind = "Error" => i = Len(sent[w])

(***************************************************************************)
(* C7 (errors are per request).  While the latest request is displayed     *)
(* (no Back or drag-start since its submit), an Error state carries a      *)
(* message that the latest request's own worker sent: the error of an      *)
(* earlier request does not change what is displayed for a later one.      *)
(* Violated: the Error of a superseded worker is applied like any other.   *)
(***************************************************************************)
C7_ErrorOfCurrentRequest ==
    (live /\ state.tag = "Error")
        => \E i \in 1 .. Len(sent[gen]) : sent[gen][i] = ErrorEvent(state.err)

(***************************************************************************)
(* C8 (result of run_selection_ui).  When run returns after the user       *)
(* finalized a selection it returns Some of that rectangle and the         *)
(* viewport size; when it returns with no selection it returns None.       *)
(* Violated: nothing writes SnippingTool.result, so run returns None       *)
(* always.                                                                 *)
(***************************************************************************)
C8_RunResult ==
    ret # Running =>
        IF is_selection_finalized
        THEN /\ ret # None
             /\ ret.some[1] = RectFromTwoPos(selection_start, current_pos)
             /\ ret.some[2] = ViewportSize
        ELSE ret = None

(***************************************************************************)
(* C9 (gesture threshold).  A frame in which the drag stops finalizes the  *)
(* selection (SelectionEvent::Completed, start and current kept) exactly   *)
(* when the distance from start to current is strictly greater than 10;    *)
(* otherwise, a distance of exactly 10 included, the event is Cancelled    *)
(* and start and current are both cleared.                                 *)
(***************************************************************************)
C9_GestureThreshold ==
    [][(dragging /\ ~dragging') =>
          IF Dist2(selection_start, current_pos) > 10 * 10
          THEN /\ last'.event = "Completed"
               /\ is_selection_finalized'
               /\ selection_start' = selection_start
               /\ current_pos' = current_pos
          ELSE /\ last'.event = "Cancelled"
               /\ ~is_selection_finalized'
               /\ selection_start' = None
               /\ current_pos' = None]_vars

\* A drag of distance 15 has been finalized.
C9_Witness ==
    /\ last.event = "Completed"
    /\ is_selection_finalized
    /\ Dist2(selection_start, current_pos) = 15 * 15

(***************************************************************************)
(* C10 (coordinate mapping).  For a selection inside the viewport with     *)
(* non-negative corners, process_selection crops at the origin             *)
(* (min.x * scale_x, min.y * scale_y) with the extent                      *)
(* (width * scale_x, height * scale_y), each truncated to an integer and   *)
(* each axis with its own scale image / ui, and fails only when such an    *)
(* extent is 0; a 3840x2160 image under a 1920x1080 viewport maps          *)
(* (100,100)-(200,150) to the pixel rectangle (200,200)-(400,300).         *)
(***************************************************************************)
C10_InBounds(c) ==
    /\ 0 <= c.selection.min.x /\ c.selection.min.x <= c.selection.max.x
    /\ c.selection.max.x <= c.ui_size.x
    /\ 0 <= c.selection.min.y /\ c.selection.min.y <= c.selection.max.y
    /\ c.selection.max.y <= c.ui_size.y

C10_CoordinateMapping ==
    cropped # None =>
        LET sel == cropped.selection
            img == cropped.original
            ui == cropped.ui_size
            out == cropped.out
            w == ((sel.max.x - sel.min.x) * img.width) \div ui.x
            h == ((sel.max.y - sel.min.y) * img.height) \div ui.y
        IN  /\ C10_InBounds(cropped) =>
                IF w = 0 \/ h = 0
                THEN ~out.ok
                ELSE /\ out.ok
                     /\ out.x = Wide((sel.min.x * img.width) \div ui.x)
                     /\ out.y = Wide((sel.min.y * img.height) \div ui.y)
                     /\ out.width = Wide(w)
                     /\ out.height = Wide(h)
            /\ (/\ img = Size(3840, 2160) /\ ui = Vec2(1920, 1080)
                /\ sel = [min |-> Pos(100, 100), max |-> Pos(200, 150)])
                  => out = [ok |-> TRUE, x |-> Wide(200), y |-> Wide(200),
                            width |-> Wide(400 - 200), height |-> Wide(300 - 200)]

\* The documented example has been mapped.
C10_Witness ==
    /\ cropped # None
    /\ cropped.original = Size(3840, 2160)
    /\ cropped.ui_size = Vec2(1920, 1080)
    /\ cropped.selection = [min |-> Pos(100, 100), max |-> Pos(200, 150)]
    /\ cropped.out.ok

(***************************************************************************)
(* C11 (clamping).  For every selection, viewport size and image size a    *)
(* call of process_selection does not panic, and it either fails with      *)
(* EmptySelection or crops a rectangle with width > 0, height > 0,         *)
(* x + width <= image.width and y + height <= image.height.                *)
(* Violated: for a selection whose scaled origin reaches u32::MAX the      *)
(* addition x + width overflows; a build with overflow checks panics, a    *)
(* build without compares the wrapped sum and crops at x = u32::MAX.       *)
(***************************************************************************)
C11_Clamping ==
    cropped # None =>
        LET out == cropped.out
            img == cropped.original
        IN  IF out.ok
            THEN /\ out.width # Wide(0)
                 /\ out.height # Wide(0)
                 /\ ~WideLess(Wide(img.width), WideAdd(out.x, out.width))
                 /\ ~WideLess(Wide(img.height), WideAdd(out.y, out.height))
            ELSE out.err = "EmptySelection"

(***************************************************************************)
(* C12 (degenerate selection).  A call of process_selection with a         *)
(* selection of zero area, or with one that lies entirely outside the      *)
(* viewport on some side (left of it or above it, at negative coordinates, *)
(* included), fails with EmptySelection.                                   *)
(* Violated: a negative origin is raised to 0 while the extent is kept, so *)
(* a selection entirely left of or above the viewport is cropped from the  *)
(* image's edge.                                                           *)
(***************************************************************************)
C12_Degenerate(c) ==
    \/ c.selection.max.x = c.selection.min.x
    \/ c.selection.max.y = c.selection.min.y
    \/ c.selection.max.x <= 0
    \/ c.selection.max.y <= 0
    \/ c.selection.min.x >= c.ui_size.x
    \/ c.selection.min.y >= c.ui_size.y

C12_DegenerateSelection ==
    (cropped # None /\ C12_Degenerate(cropped))
        => cropped.out = [ok |-> FALSE, err |-> "EmptySelection"]

(***************************************************************************)
(* C13 (submit despite a failed save).  A frame in which submit_request    *)
(* runs (it starts in Idle and its click is the submit button)             *)
(* ends in Response with empty text and empty thoughts and with            *)
(* exactly one more worker, newly spawned, every other worker as it was,   *)
(* whether Settings::save succeeded or failed.                             *)
(***************************************************************************)
C13_SubmitAlways ==
    [][(state = Idle /\ last'.click = "submit") =>
          /\ last'.save \in {"ok", "failed"}
          /\ state' = Response(<< >>, << >>)
          /\ gen' = gen + 1
          /\ workers'[gen'].pc = "spawned"
          /\ \A w \in WorkerIds \ {gen'} : workers'[w] = workers[w]]_vars

\* submit_request has just run with a failed save, while an earlier worker
\* is still streaming.
C13_Witness ==
    /\ last.click = "submit" /\ last.save = "failed"
    /\ state = Response(<< >>, << >>)
    /\ gen = 2 /\ workers[2].pc = "spawned" /\ workers[1].pc = "stream"

(***************************************************************************)
(* C14 (the UI thread never waits on a worker).  While the overlay is open *)
(* a frame can always be completed, whatever the workers are doing; a      *)
(* frame in which submit_request runs ends with the new worker spawned and *)
(* no step of it taken (nothing sent); and a frame consumes exactly the    *)
(* events that were in the channel when it began and applies them in       *)
(* order.                                                                  *)
(***************************************************************************)
C14_NonBlocking ==
    /\ [](~closed => ENABLED Frame)
    /\ [][(state = Idle /\ last'.click = "submit") =>
             /\ workers'[gen'].pc = "spawned"
             /\ sent' = sent]_vars
    /\ [][(last' # last /\ last'.click = "none" /\ last'.event = "None") =>
             /\ state' = ProcessStreamEvents(state, chan)
             /\ chan' = << >>]_vars

\* A frame has been completed with one worker spawned and not yet run and
\* another in the middle of its stream.
C14_Witness ==
    /\ ~closed
    /\ last.click = "none" /\ last.event = "None"
    /\ workers[1].pc = "stream" /\ workers[2].pc = "spawned"
    /\ state.tag = "Response"

(***************************************************************************)
(* C15 (per-worker FIFO).  While the overlay is open, for every worker the *)
(* events process_stream_events has received from it, followed by its      *)
(* events still in the channel, are exactly the events it sent, in the     *)
(* order it sent them: none is lost, doubled or overtaken, in any          *)
(* interleaving with frames and with the other worker's sends.  And the    *)
(* payloads of one worker that a Response shows stand in the order the     *)
(* worker sent them.                                                       *)
(***************************************************************************)
C15_InOrder(shown) ==
    \A i, j \in 1 .. Len(shown) :
        (i < j /\ shown[i][1] = shown[j][1]) => shown[i][2] < shown[j][2]

C15_PerWorkerFIFO ==
    /\ \A w \in WorkerIds : applied[w] \o Taken(chan, w) = sent[w]
    /\ state.tag = "Response" =>
          C15_InOrder(state.text) /\ C15_InOrder(state.thoughts)

\* Both workers have had two events received, and the Response shows a
\* chunk of each.
C15_Witness ==
    /\ ~closed
    /\ Len(applied[1]) = 2 /\ Len(applied[2]) = 2
    /\ state.tag = "Response"
    /\ {state.text[i][1] : i \in 1 .. Len(state.text)} = {1, 2}

(***************************************************************************)
(* C16 (no cancellation).  (1) A step that changes anything of the         *)
(* overlay (a Back, a drag-start, a submit, any frame) leaves every        *)
(* already spawned worker as it was; (2) a superseded worker that has not  *)
(* ended can always take its next step, so two workers can be alive        *)
(* together; (3) a frame that receives events shows what it would show had *)
(* the events of superseded workers not been in the channel.               *)
(* (1) and (2) hold.  (3) is violated: process_stream_events applies the   *)
(* events of a superseded worker like any other (see C1).                  *)
(***************************************************************************)
\* Worker w was spawned and is not the worker of the current request.
C16_Superseded(w) == workers[w].pc # "none" /\ (w < gen \/ ~live)

C16_CurrentOnly(queue) ==
    SelectSeq(queue, LAMBDA e : ~C16_Superseded(e.src))

C16_Untouched ==
    [][\A w \in WorkerIds :
          (workers[w].pc # "none" /\ workers'[w] # workers[w])
              => UNCHANGED << selection_start, current_pos,
                              is_selection_finalized, chat_input, state,
                              dragging, closed, applied, live, last >>]_vars

C16_KeepsRunning ==
    [](\A w \in WorkerIds :
          (~closed /\ C16_Superseded(w) /\ workers[w].pc # "end")
              => ENABLED (WorkerStart(w) \/ WorkerStreamItem(w)
                          \/ WorkerStreamEnd(w)))

C16_Discarded ==
    [][(applied' # applied /\ last'.click = "none" /\ last'.event # "Started")
          => state' = ProcessStreamEvents(state, C16_CurrentOnly(chan))]_vars

C16_NoCancellation == C16_Untouched /\ C16_KeepsRunning /\ C16_Discarded

\* Two workers are streaming at once, the first one superseded.
C16_TwoAlive ==
    workers[1].pc = "stream" /\ workers[2].pc = "stream" /\ C16_Superseded(1)

(***************************************************************************)
(* C17 (frozen selection).  From the frame that finalizes a selection up   *)
(* to the next drag-start (that is, over every step that begins and ends   *)
(* with is_selection_finalized set), selection_start and current_pos keep  *)
(* their values, whatever the step is: a frame draining stream events, a   *)
(* submit, a Back, a worker's step.  The pointer's events are well formed. *)
(***************************************************************************)
C17_FrozenSelection ==
    [][(is_selection_finalized /\ is_selection_finalized')
          => /\ selection_start' = selection_start
             /\ current_pos' = current_pos]_vars

\* After the selection (0,0)-(9,12) was finalized there were a submit, a
\* Back, a second submit and a drained chunk, and the selection is the same.
C17_Witness ==
    /\ is_selection_finalized
    /\ selection_start = Pos(0, 0) /\ current_pos = Pos(9, 12)
    /\ gen = 2
    /\ state.tag = "Response" /\ Len(state.text) >= 1

(***************************************************************************)
(* C18 (no silent failure).  A worker that has ended has sent something,   *)
(* and unless it sent Done (its stream was opened and ran to its end) the  *)
(* last event it sent is an Error: the failures of the runtime, of the     *)
(* image processing, of the client and of the opening of the stream each   *)
(* end with an Error sent, and no worker ends by a panic (which would send *)
(* nothing).  An error item inside the stream is sent as an Error too:     *)
(* every item the worker took from its stream is an event it sent.         *)
(***************************************************************************)
C18_NoSilentFailure ==
    \A w \in WorkerIds :
        /\ workers[w].pc = "end" =>
              /\ sent[w] # << >>
              /\ "Done" \notin Kinds(sent[w])
                    => sent[w][Len(sent[w])].kind = "Error"
        /\ workers[w].pc = "stream" => Len(sent[w]) = workers[w].n

\* Worker 1 failed before its stream and sent one Error; worker 2 met an
\* error item inside its stream, sent it, and ended with Done.
C18_Witness ==
    /\ workers[1].pc = "end" /\ Kinds(sent[1]) = {"Error"}
    /\ workers[2].pc = "end"
    /\ Len(sent[2]) = 2 /\ sent[2][1].kind = "Error" /\ sent[2][2].kind = "Done"

(***************************************************************************)
(* C19 (Escape closes).  In every state of the open overlay, whatever the  *)
(* gesture (no selection, a drag under way, a finalized selection) and     *)
(* whatever the presentation state, a frame in which Escape is pressed can *)
(* be taken, and every such frame issues ViewportCommand::Close.           *)
(***************************************************************************)
C19_EscapeCloses ==
    /\ [](~closed => ENABLED Escape)
    /\ [][Escape => closed']_vars

\* Escape closed the overlay in the middle of a drag, with an Error shown
\* (the Close button exists in a Response only).
C19_Witness == closed /\ dragging /\ state.tag = "Error"

(***************************************************************************)
(* C20 (screen index).  A capture returns ScreenNotFound(i) exactly when   *)
(* the index i it was called with is at least the number of screens of the *)
(* capturer, and ScreenNotFound carries that index; a capturer that was    *)
(* constructed has at least one screen, so that neither index 0 nor        *)
(* capture_screen gives ScreenNotFound.                                    *)
(***************************************************************************)
C20_ScreenNotFound ==
    /\ (capturer # None /\ capturer.ok) => Len(capturer.screens) >= 1
    /\ captured # None =>
          /\ (captured.out = ScreenNotFound(captured.index))
                <=> (captured.index >= Len(capturer.screens))
          /\ (~captured.out.ok /\ captured.out.err = "ScreenNotFound")
                => captured.out = ScreenNotFound(captured.index)
          /\ captured.index = 0 => captured.out # ScreenNotFound(0)

\* A capturer of two screens was asked for index 0 and gave the image of the
\* first one.
C20_Witness ==
    /\ capturer # None /\ capturer.ok /\ Len(capturer.screens) = 2
    /\ captured # None /\ captured.index = 0
    /\ captured.out = [ok |-> TRUE, image |-> capturer.screens[1]]

\* The same capturer was asked for index 2 and gave ScreenNotFound(2).
C20_WitnessNotFound ==
    /\ capturer # None /\ capturer.ok /\ Len(capturer.screens) = 2
    /\ captured # None /\ captured.out = ScreenNotFound(2)

(***************************************************************************)
(* C22 (drag-move frame).  A frame that processes a drag-move puts the     *)
(* pointer's position into current_pos and leaves selection_start,          *)
(* is_selection_finalized and chat_input as they were; the presentation    *)
(* state is what the drain at the head of the frame made of it, the move   *)
(* adds nothing.                                                           *)
(***************************************************************************)
C22_DragMove ==
    [][(last'.event = "Dragging" /\ dragging /\ dragging' /\ workers' = workers)
          => /\ current_pos' # None
             /\ selection_start' = selection_start
             /\ is_selection_finalized' = is_selection_finalized
             /\ chat_input' = chat_input
             /\ state' = ProcessStreamEvents(state, chan)]_vars

\* A drag was moved from (0,0) to (9,12) while a Response was shown.
C22_Witness ==
    /\ dragging /\ last.event = "Dragging"
    /\ selection_start = Pos(0, 0) /\ current_pos = Pos(9, 12)
    /\ state.tag = "Response"

(***************************************************************************)
(* C23 (Done is a no-op).  In every presentation state the overlay comes   *)
(* to, applying StreamEvent::Done gives the same state, variant and        *)
(* content; and a frame without input that drains nothing but Done events  *)
(* leaves UiState, the selection and chat_input exactly as they were.      *)
(***************************************************************************)
C23_OnlyDone(queue) ==
    queue # << >> /\ \A i \in 1 .. Len(queue) : queue[i].ev = Done

C23_DoneNoOp ==
    /\ [](ApplyEvent(state, Done) = state)
    /\ [][(C23_OnlyDone(chan) /\ chan' = << >> /\ workers' = workers
           /\ last'.click = "none" /\ last'.event = "None")
             => /\ state' = state
                /\ selection_start' = selection_start
                /\ current_pos' = current_pos
                /\ is_selection_finalized' = is_selection_finalized
                /\ chat_input' = chat_input]_vars

\* Worker 1 sent an Error item and then Done; both were drained and the
\* Error is still shown.
C23_Witness ==
    /\ state.tag = "Error"
    /\ Len(sent[1]) = 2 /\ sent[1][1].kind = "Error" /\ sent[1][2] = Done
    /\ applied[1] = sent[1]
    /\ state.err = sent[1][1].payload

(***************************************************************************)
(* C24 (Done once, last).  A worker that has not ended has sent no Done.   *)
(* A worker whose stream was opened ends by sending Done, after everything *)
(* it sent from the stream; a worker that ends before its stream was       *)
(* opened sends no Done; and an ended worker sends nothing more, so that   *)
(* Done is sent once at most and is the last event.                        *)
(***************************************************************************)
C24_DoneOnceLast ==
    /\ [](\A w \in WorkerIds :
            workers[w].pc # "end" => "Done" \notin Kinds(sent[w]))
    /\ [][\A w \in WorkerIds :
            /\ (workers[w].pc = "stream" /\ workers'[w].pc = "end")
                  => sent'[w] = Append(sent[w], Done)
            /\ (workers[w].pc = "spawned" /\ workers'[w].pc = "end")
                  => "Done" \notin Kinds(sent'[w])
            /\ workers[w].pc = "end"
                  => sent'[w] = sent[w] /\ workers'[w] = workers[w]]_vars

\* Worker 1 streamed a Chunk and a Thought and ended with Done; worker 2
\* failed before its stream and sent an Error only.
C24_Witness ==
    /\ workers[1].pc = "end" /\ Len(sent[1]) = 3
    /\ Kinds(SubSeq(sent[1], 1, 2)) = {"Chunk", "Thought"} /\ sent[1][3] = Done
    /\ workers[2].pc = "end" /\ Kinds(sent[2]) = {"Error"}

(***************************************************************************)
(* C26 (Back is sticky).  A frame in which Back is clicked ends in Idle,   *)
(* and from then on the state stays Idle until a submit: in particular the *)
(* first frame after the Back, whatever the worker of the abandoned        *)
(* request has sent meanwhile, ends in Idle unless it submits.             *)
(* The first part holds.  The second is violated: the events of the        *)
(* abandoned worker are applied in Idle (see C3).                          *)
(***************************************************************************)
C26_BackGivesIdle ==
    [][(last'.click = "back" /\ workers' = workers /\ ~closed')
          => state' = Idle]_vars

C26_StaysIdle ==
    [][(last.click = "back" /\ state = Idle)
          => (state' = Idle \/ last'.click = "submit")]_vars

C26_BackSticky == C26_BackGivesIdle /\ C26_StaysIdle

(***************************************************************************)
(* C27 (a new drag supersedes).  A frame in which a drag stops within the  *)
(* threshold (the event is Cancelled) ends with no selection               *)
(* (selection_start and current_pos None, is_selection_finalized false)    *)
(* and with UiState Idle, whatever was selected and shown before the drag. *)
(* The selection part holds.  The Idle part is violated when the worker of *)
(* the superseded request sends an event during the drag: the event is     *)
(* applied in Idle (see C3) and a Response or an Error is shown again.     *)
(***************************************************************************)
C27_NoSelection ==
    [][(last'.event = "Cancelled" /\ dragging /\ ~dragging')
          => /\ selection_start' = None
             /\ current_pos' = None
             /\ ~is_selection_finalized']_vars

C27_EndsIdle ==
    [][(last'.event = "Cancelled" /\ dragging /\ ~dragging')
          => state' = Idle]_vars

C27_NewDragSupersedes == C27_NoSelection /\ C27_EndsIdle

\* A drag on a finalized, submitted selection was cancelled.
C27_Cancelled ==
    /\ last.event = "Cancelled" /\ gen >= 1
    /\ selection_start = None /\ current_pos = None

(***************************************************************************)
(* C28 (drain before input).  A frame that finds events in the channel and *)
(* a drag-start on the pointer applies the events first and the drag-start *)
(* to the result: it empties the channel, every event it found counts as   *)
(* received, and it ends in Idle, whatever the events would have shown.    *)
(***************************************************************************)
C28_DrainBeforeInput ==
    [][(chan # << >> /\ last'.event = "Started" /\ ~dragging /\ dragging')
          => /\ state' = Idle
             /\ chan' = << >>
             /\ \A w \in WorkerIds : applied'[w] = applied[w] \o Taken(chan, w)
             \* the drag-start met the state the events had left
             /\ last'.was = ProcessStreamEvents(state, chan).tag]_vars

\* A drag-start frame found a Chunk in the channel while Idle was shown:
\* the events alone would have left a Response.
C28_Witness ==
    /\ last.event = "Started" /\ last.drained /\ last.was = "Response"
    /\ state = Idle /\ dragging
    /\ \E w \in WorkerIds : applied[w] # << >> /\ applied[w][Len(applied[w])].kind = "Chunk"

(***************************************************************************)
(* C21 (drag-start effects).  A drag can start in every open state in      *)
(* which none is under way, a finalized selection included.  The frame     *)
(* that processes it sets selection_start and current_pos both to the      *)
(* pointer's position, clears is_selection_finalized, empties chat_input   *)
(* and ends in Idle, whether it met Idle, a Response or an Error.          *)
(***************************************************************************)
C21_DragStartFrame ==
    \E p \in StartPoints :
        Update([kind |-> "start", pos |-> p], FALSE, "none", chat_input,
               settings, TRUE)

C25_SelectionFails(w) ==
    /\ workers[w].pc = "spawned"
    /\ \A overflow_checks \in BOOLEAN :
          ~process_selection(ScreenshotSize, workers[w].selection,
                             workers[w].ui_size, overflow_checks).ok

C25_ImageError(events) ==
    /\ Len(events) = 1
    /\ events[1].kind = "Error"
    /\ events[1].payload[1] = "Image processing failed: "

C25_ShortCircuit ==
    /\ [][\A w \in WorkerIds :
            (/\ C25_SelectionFails(w)
             /\ workers'[w] # workers[w]
             /\ sent'[w][1].payload[1] # "Failed to create async runtime: ")
                => /\ C25_ImageError(sent'[w])
                   /\ workers'[w].pc = "end"
                   /\ requests'[w] = None]_vars
    /\ [](\A w \in WorkerIds :
            (sent[w] # << >> /\ C25_ImageError(<< sent[w][1] >>))
                => /\ C25_ImageError(sent[w])
                   /\ workers[w].pc = "end"
                   /\ requests[w] = None)

\* Worker 1 held the zero-width selection (0,0)-(0,12): its one event, the
\* Error of the image processing, was drained and is shown.
C25_Witness ==
    /\ workers[1].pc = "end"
    /\ sent[1] = << ErrorEvent(<< "Image processing failed: ",
                                  "Selection area is empty or invalid" >>) >>
    /\ requests[1] = None
    /\ state = ErrorState(sent[1][1].payload)

(***************************************************************************)
(* C29 (snapshot isolation).  The worker a submit spawns holds the         *)
(* selection rectangle, the viewport size, the prompt and the settings of  *)
(* the moment of the submit; no frame changes what a spawned worker holds, *)
(* whatever it changes in the overlay (the settings in the panel, the      *)
(* prompt field, the selection); the request the worker makes is built     *)
(* from what it holds and from nothing else, and is not altered later.     *)
(***************************************************************************)
C29_Overlay ==
    << selection_start, current_pos, is_selection_finalized, chat_input,
       settings, state, dragging >>

C29_SnapshotIsolation ==
    /\ [][gen' = gen + 1
            => workers'[gen'] =
                 [pc |-> "spawned", n |-> 0,
                  selection |-> RectFromTwoPos(selection_start, current_pos),
                  ui_size |-> ViewportSize,
                  prompt |-> PromptOf(chat_input),
                  settings |-> settings]]_vars
    /\ [][\A w \in WorkerIds :
            (workers[w].pc = "spawned" /\ workers'[w] # workers[w])
                => /\ UNCHANGED C29_Overlay
                   /\ requests'[w] # None
                        => requests'[w] =
                             Request(process_selection(ScreenshotSize,
                                                       workers[w].selection,
                                                       workers[w].ui_size, TRUE),
                                     workers[w].prompt, workers[w].settings)]_vars
    /\ [][\A w \in WorkerIds :
            requests[w] # None => requests'[w] = requests[w]]_vars

\* The request was submitted with the prompt "q" under the settings of the
\* start; before the worker ran, the user went back, changed every setting
\* in the panel and began a new selection, which emptied the prompt field.
\* The request made is the one of the submit.
C29_Witness ==
    /\ requests[1] # None
    /\ requests[1].prompt = << "q" >>
    /\ requests[1].model = "gemini-flash-latest"
    /\ requests[1].api_key = "env-key"
    /\ settings \in PanelSettings
    /\ chat_input = << >>
    /\ dragging

(***************************************************************************)
(* C30 (loading the settings).  When the settings file can be read and     *)
(* holds a JSON object with the four required fields, each of its type,    *)
(* Settings::load returns the values of the file (an absent api_key as the *)
(* empty string) and does not look at default_model; in every other case   *)
(* it returns default_model, an empty system prompt, both flags false and  *)
(* an empty API key.  The overlay starts with what load returned, except   *)
(* that an empty API key is replaced by the one of the Config.             *)
(***************************************************************************)
C30_Stored(file) ==
    /\ file.kind = "json"
    /\ \A f \in { "model", "system_prompt", "thinking_enabled", "google_search" } :
          f \in DOMAIN file.object
    /\ file.object["thinking_enabled"] \in { "true", "false" }
    /\ file.object["google_search"] \in { "true", "false" }

C30_LoadSettings ==
    loaded # None =>
        LET file == loaded.file
            out == loaded.out
        IN  /\ IF C30_Stored(file)
               THEN /\ out.model = file.object["model"]
                    /\ out.system_prompt = file.object["system_prompt"]
                    /\ out.thinking_enabled = (file.object["thinking_enabled"] = "true")
                    /\ out.google_search = (file.object["google_search"] = "true")
                    /\ out.api_key = IF "api_key" \in DOMAIN file.object
                                     THEN file.object["api_key"] ELSE ""
               ELSE out = [model |-> loaded.config.model_name,
                           system_prompt |-> "", thinking_enabled |-> FALSE,
                           google_search |-> FALSE, api_key |-> ""]
            /\ settings.api_key = IF out.api_key = ""
                                  THEN loaded.config.gemini_api_key
                                  ELSE out.api_key
            /\ [settings EXCEPT !.api_key = out.api_key] = out

\* No settings file, a Config with the model gemini-2.5-pro and a key: the
\* overlay starts with the defaults for that model and the Config's key.
C30_Witness ==
    /\ loaded # None /\ loaded.file.kind = "missing"
    /\ loaded.config = [gemini_api_key |-> "env-key", model_name |-> "gemini-2.5-pro"]
    /\ settings = SettingsOf("gemini-2.5-pro", "", FALSE, FALSE, "env-key")

\* A complete file with a key of its own: the file's values are kept.
C30_WitnessStored ==
    /\ loaded # None /\ C30_Stored(loaded.file)
    /\ loaded.config.model_name = "gemini-flash-latest"
    /\ settings = SettingsOf("gemini-2.5-pro", "Be brief.", FALSE, TRUE, "file-key")

(***************************************************************************)
(* C31.  Daemon hotkey: a capture is triggered when and only when the X    *)
(* key is pressed while at least one Control key and at least one Alt key  *)
(* are held down (pressed and not yet released).                           *)
(***************************************************************************)
C31_Chord ==
    /\ daemon.event = [type |-> "KeyPress", key |-> "KeyX"]
    /\ daemon.held \cap ControlKeys # {}
    /\ daemon.held \cap AltKeys # {}

\* C31: the latest key event triggered a capture exactly if it pressed X
\* with a Control key and an Alt key held down.
C31_Hotkey == daemon.fired <=> C31_Chord

\* The direction of C31 that the listener keeps: a capture only on the chord.
C31_OnlyOnChord == daemon.fired => C31_Chord

(***************************************************************************)
(* C32.  submit_request runs only in a frame that draws the interaction    *)
(* window for a finalized selection with the presentation state Idle: not  *)
(* while dragging, not with no selection, not while Response or Error is   *)
(* displayed; and since the submit before it, a Back or a new drag (which  *)
(* was then finalized) has happened.                                       *)
(***************************************************************************)
C32_SubmitOnlyFromIdle ==
    [][gen' = gen + 1 =>
          /\ is_selection_finalized /\ is_selection_finalized'
          /\ selection_start # None /\ current_pos # None
          /\ ~dragging
          /\ state = Idle
          /\ ProcessStreamEvents(state, chan) = Idle
          /\ ~live]_vars

\* The second submission has just run, the first one's response having
\* been left with Back or with a new drag.
C32_Witness ==
    /\ gen = 2 /\ last.click = "submit"
    /\ is_selection_finalized /\ state = SubmitState
    /\ workers[1].pc # "spawned"

(***************************************************************************)
(* C33.  A Chunk or Thought event drained while the presentation state is  *)
(* Idle or Error puts the state into Response holding only that event's    *)
(* payload: Chunk(t) gives text = t and empty thoughts, Thought(t) gives   *)
(* thoughts = t and empty text; an error message that was displayed is     *)
(* dropped.  Stated for the first event a frame drains, the frame having   *)
(* no click and no drag-start; the events behind it are applied to that    *)
(* Response.                                                               *)
(***************************************************************************)
C33_First == Head(chan).ev

C33_Fresh ==
    IF C33_First.kind = "Chunk"
    THEN [tag |-> "Response", text |-> C33_First.payload, thoughts |-> << >>]
    ELSE [tag |-> "Response", text |-> << >>, thoughts |-> C33_First.payload]

C34_FinalizedIsValid ==
    is_selection_finalized =>
        /\ selection_start # None
        /\ current_pos # None
        /\ Dist2(selection_start, current_pos)
             > MIN_SELECTION_DISTANCE * MIN_SELECTION_DISTANCE

\* A selection whose corners are just over 10 apart is finalized, and the
\* pointer is up.
C34_Witness ==
    /\ is_selection_finalized /\ ~dragging
    /\ selection_start # None /\ current_pos # None
    /\ Dist2(selection_start, current_pos) = 101

(***************************************************************************)
(* C35.  UiState::Loading is unreachable: from the initial Idle state no   *)
(* sequence of drags, submits, Back presses and stream events puts the     *)
(* presentation state into Loading, and the state the Loading guard of the *)
(* next frame sees (after its drain) is not Loading either, so selection   *)
(* input is never disabled by it.                                          *)
(***************************************************************************)
C35_NeverLoading ==
    /\ state.tag \in {"Idle", "Response", "Error"}
    /\ ProcessStreamEvents(state, chan).tag # "Loading"

\* After two submits and all the stream events a drag is under way: the
\* frame took the pointer's move.
C35_Witness ==
    /\ gen = MaxSubmits /\ Streamed = MaxStreamEvents
    /\ dragging /\ last.event = "Dragging"
    /\ current_pos # selection_start

====
